---- MODULE Spec2Model ----
(***************************************************************************)
(* A model of logger.h: the intrusive reference counting (Ref), the        *)
(* memory logger (MemLogger) and the asynchronous logger (AsyncLogger)     *)
(* with its self-detaching worker thread.  The object graph is              *)
(*     root() = new AsyncLogger(new MemLogger(max_size))                    *)
(* Producer threads call log() through Ref handles they hold, copy and      *)
(* release handles; worker threads are spawned by AsyncLogger::log.         *)
(***************************************************************************)
EXTENDS Integers, Sequences, FiniteSets, TLC

\* ---- bounds --------------------------------------------------------------
NumProducers == 2
MaxAppend == 3

\* ---- the universe --------------------------------------------------------
Producers == 1..NumProducers
Workers == 1..MaxAppend
Handles == {"root", "s2"}
Objs == {"async", "mem"}
\* the Entry of the n-th log() call of the program is named by the n-th letter
RecNames == <<"A", "B", "C", "D", "E", "F">>
Records == {RecNames[i] : i \in 1..MaxAppend}
\* MemLogger(max_size): unbounded, empty, and smaller than the number of records
Capacities == {-1, 0, 2}
NoRec == "none"
NoThread == 0
Unlocked == <<"free", 0>>

VARIABLES
    handle,     \* Ref<Logger>::p of each external handle: "null" or "async"
    rc,         \* RefCounted::refcount of each object
    alive,      \* the object has been constructed and not yet deleted
    destroyed,  \* how many times delete ran on the object
    q,          \* AsyncLogger::q
    m,          \* AsyncLogger::m: Unlocked or the thread holding it
    worker,     \* AsyncLogger::worker, the std::thread handle
    nspawned,   \* how many worker threads were created so far
    pc,         \* position of each producer thread
    arg,        \* the Entry a producer is logging
    via,        \* the handle a producer is calling log() through
    wpc,        \* position of each worker thread
    we,         \* the Entry a worker passes to L->log
    memq,       \* MemLogger::q
    max_size,   \* MemLogger::max_size
    appended,   \* history: records pushed on AsyncLogger::q, in order
    delivered,  \* history: records handed to L->log, in order
    stored,     \* history: records MemLogger::log has pushed, in order
    aborted,    \* std::terminate was called
    warg,       \* the Entry a worker logs from inside L->log (re-entrant log())
    sync        \* the synchronous graph FilteringLogger -> MultiLogger -> sinks

vars == <<handle, rc, alive, destroyed, q, m, worker, nspawned, pc, arg, via,
          wpc, we, memq, max_size, appended, delivered, stored, aborted, warg, sync>>

\* the variables of the AsyncLogger graph
asyncVars == <<handle, rc, alive, destroyed, q, m, worker, nspawned, pc, arg, via,
               wpc, we, memq, max_size, appended, delivered, stored, aborted, warg>>

\* ---- std::deque ----------------------------------------------------------
PushBack(s, e) == Append(s, e)

PopFront(s) == IF s = <<>> THEN <<>> ELSE Tail(s)

\* q.back() taken for q.front()
FrontIsBack(s) == IF s = <<>> THEN NoRec ELSE s[Len(s)]

Front(s) == IF s = <<>> THEN NoRec ELSE Head(s)

\* ---- MemLogger::log ------------------------------------------------------
\* int(q.size()) >= max_size taken for int(q.size()) > max_size
RECURSIVE EvictOneTooMany(_, _)
EvictOneTooMany(s, cap) ==
    IF cap # -1 /\ Len(s) >= cap /\ s # <<>> THEN EvictOneTooMany(PopFront(s), cap) ELSE s

\* while (max_size != -1 && int(q.size()) > max_size) q.pop_front();
RECURSIVE Evict(_, _)
Evict(s, cap) == IF cap # -1 /\ Len(s) > cap THEN Evict(PopFront(s), cap) ELSE s

\* q.push_front(e) taken for q.push_back(e)
MemLogPushFront(s, e, cap) == Evict(<<e>> \o s, cap)

\* q.push_back(e); then the eviction loop
MemLog(s, e, cap) == Evict(PushBack(s, e), cap)

\* ---- Ref -----------------------------------------------------------------
\* the count tested before the decrement: p->refcount-- == 0 shifted by one
ShouldDeleteEarly(n) == n <= 1

\* --p->refcount == 0
ShouldDelete(n) == n = 0

\* delete p: the destructor chain.  ~AsyncLogger destroys its members, among
\* them the Ref L to the MemLogger; ~std::thread of a joinable thread calls
\* std::terminate.
Destroy(o) ==
    IF o = "async"
    THEN LET n == rc["mem"] - 1 IN
         /\ rc' = [rc EXCEPT !["mem"] = n]
         /\ alive' = [alive EXCEPT !["async"] = FALSE,
                                   !["mem"] = IF ShouldDelete(n) THEN FALSE ELSE @]
         /\ destroyed' = [destroyed EXCEPT !["async"] = @ + 1,
                                           !["mem"] = IF ShouldDelete(n) THEN @ + 1 ELSE @]
         /\ memq' = IF ShouldDelete(n) THEN <<>> ELSE memq
         /\ q' = <<>>
         /\ aborted' = (aborted \/ worker.joinable)
    ELSE /\ alive' = [alive EXCEPT ![o] = FALSE]
         /\ destroyed' = [destroyed EXCEPT ![o] = @ + 1]
         /\ memq' = <<>>
         /\ UNCHANGED <<rc, q, aborted>>

\* ---- AsyncLogger::log ----------------------------------------------------
\* the size tested as it was before the push_back: if (q.size() == 0)
NeedSpawnBeforePush(s) == Len(s) = 0

\* if (q.size() >= 1) taken for if (q.size() == 1)
NeedSpawnAny(s) == Len(s) >= 1

\* if (q.size() == 1)
NeedSpawn(s) == Len(s) = 1

\* while (q.size() > 1) taken for while (q.size() > 0)
LoopCondOffByOne(s) == Len(s) > 1

\* while (q.size() > 0)
LoopCond(s) == Len(s) > 0

\* the synchronous graph is not in use
SyncOff == [pc |-> "off"]

\* root() = new AsyncLogger(new MemLogger(max_size))
AsyncInit ==
    /\ handle = [h \in Handles |-> IF h = "root" THEN "async" ELSE "null"]
    /\ rc = [o \in Objs |-> 1]
    /\ alive = [o \in Objs |-> TRUE]
    /\ destroyed = [o \in Objs |-> 0]
    /\ q = <<>>
    /\ m = Unlocked
    /\ worker = [joinable |-> FALSE, id |-> NoThread]
    /\ nspawned = 0
    /\ pc = [p \in Producers |-> "idle"]
    /\ arg = [p \in Producers |-> NoRec]
    /\ via = [p \in Producers |-> "null"]
    /\ wpc = [w \in Workers |-> "none"]
    /\ we = [w \in Workers |-> NoRec]
    /\ memq = <<>>
    /\ max_size \in Capacities
    /\ appended = <<>>
    /\ delivered = <<>>
    /\ stored = <<>>
    /\ aborted = FALSE
    /\ warg = [w \in Workers |-> NoRec]

Init == AsyncInit /\ sync = SyncOff

\* number of log() calls started so far
Calls == Len(appended) + Cardinality({p \in Producers : pc[p] = "lock"})
                       + Cardinality({w \in Workers : wpc[w] = "relog"})

\* handle->log(e): the call is entered
Call(p, h, r) ==
    /\ ~aborted
    /\ pc[p] = "idle"
    /\ handle[h] = "async"
    /\ Calls < MaxAppend
    /\ r = RecNames[Calls + 1]
    /\ pc' = [pc EXCEPT ![p] = "lock"]
    /\ arg' = [arg EXCEPT ![p] = r]
    /\ via' = [via EXCEPT ![p] = h]
    /\ UNCHANGED <<handle, rc, alive, destroyed, q, m, worker, nspawned, wpc, we,
                   memq, max_size, appended, delivered, stored, aborted>>
    /\ UNCHANGED <<warg, sync>>

\* std::lock_guard<std::mutex> lock(m); q.push_back(e);
AcceptLock(p) ==
    /\ ~aborted
    /\ pc[p] = "lock"
    /\ m = Unlocked
    /\ m' = <<"p", p>>
    /\ q' = PushBack(q, arg[p])
    /\ appended' = Append(appended, arg[p])
    /\ pc' = [pc EXCEPT ![p] = "locked"]
    /\ UNCHANGED <<handle, rc, alive, destroyed, worker, nspawned, arg, via, wpc, we,
                   memq, max_size, delivered, stored, aborted>>
    /\ UNCHANGED <<warg, sync>>

\* worker.join() returns once the thread the handle refers to has ended
JoinReturns == worker.joinable => wpc[worker.id] = "done"

\* every log() starts a fire-and-forget thread: std::thread(...).detach()
AcceptSpawnDetached(p) ==
    /\ ~aborted
    /\ pc[p] = "locked"
    /\ nspawned < MaxAppend
    /\ nspawned' = nspawned + 1
    /\ rc' = [rc EXCEPT !["async"] = @ + 1]
    /\ wpc' = [wpc EXCEPT ![nspawned + 1] = "start"]
    /\ pc' = [pc EXCEPT ![p] = "unlock"]
    /\ UNCHANGED <<handle, alive, destroyed, q, m, worker, arg, via, we,
                   memq, max_size, appended, delivered, stored, aborted>>
    /\ UNCHANGED <<warg, sync>>

\* the lambda captures [this] only: the worker holds no Ref of its own
AcceptSpawnNoRef(p) ==
    /\ ~aborted
    /\ pc[p] = "locked"
    /\ IF NeedSpawn(q)
       THEN /\ JoinReturns
            /\ nspawned < MaxAppend
            /\ nspawned' = nspawned + 1
            /\ worker' = [joinable |-> TRUE, id |-> nspawned + 1]
            /\ wpc' = [wpc EXCEPT ![nspawned + 1] = "start"]
       ELSE UNCHANGED <<nspawned, worker, wpc>>
    /\ pc' = [pc EXCEPT ![p] = "unlock"]
    /\ UNCHANGED <<handle, rc, alive, destroyed, q, m, arg, via, we,
                   memq, max_size, appended, delivered, stored, aborted>>
    /\ UNCHANGED <<warg, sync>>

\* if (q.size() == 1) { if (worker.joinable()) worker.join();
\*                      Ref<Logger> me(this); worker = std::thread(...); }
AcceptSpawn(p) ==
    /\ ~aborted
    /\ pc[p] = "locked"
    /\ IF NeedSpawn(q)
       THEN /\ JoinReturns
            /\ nspawned < MaxAppend
            /\ nspawned' = nspawned + 1
            /\ rc' = [rc EXCEPT !["async"] = @ + 1]
            /\ worker' = [joinable |-> TRUE, id |-> nspawned + 1]
            /\ wpc' = [wpc EXCEPT ![nspawned + 1] = "start"]
       ELSE UNCHANGED <<nspawned, rc, worker, wpc>>
    /\ pc' = [pc EXCEPT ![p] = "unlock"]
    /\ UNCHANGED <<handle, alive, destroyed, q, m, arg, via, we,
                   memq, max_size, appended, delivered, stored, aborted>>
    /\ UNCHANGED <<warg, sync>>

\* ~lock_guard; return
AcceptUnlock(p) ==
    /\ ~aborted
    /\ pc[p] = "unlock"
    /\ m' = Unlocked
    /\ pc' = [pc EXCEPT ![p] = "idle"]
    /\ arg' = [arg EXCEPT ![p] = NoRec]
    /\ via' = [via EXCEPT ![p] = "null"]
    /\ UNCHANGED <<handle, rc, alive, destroyed, q, worker, nspawned, wpc, we,
                   memq, max_size, appended, delivered, stored, aborted>>
    /\ UNCHANGED <<warg, sync>>

\* ---- Ref operations of the producer threads --------------------------------
\* the copy constructor without its increment: Ref(const Ref& other) : p(other.p) {}
CopyRefNoInc(p, src, dst) ==
    /\ ~aborted
    /\ pc[p] = "idle"
    /\ handle[src] = "async"
    /\ handle[dst] = "null"
    /\ handle' = [handle EXCEPT ![dst] = "async"]
    /\ UNCHANGED <<rc, alive, destroyed, q, m, worker, nspawned, pc, arg, via, wpc, we,
                   memq, max_size, appended, delivered, stored, aborted>>
    /\ UNCHANGED <<warg, sync>>

\* Ref(const Ref& other) : p(other.p) { if (p) p->refcount++; }
CopyRef(p, src, dst) ==
    /\ ~aborted
    /\ pc[p] = "idle"
    /\ handle[src] = "async"
    /\ handle[dst] = "null"
    /\ handle' = [handle EXCEPT ![dst] = "async"]
    /\ rc' = [rc EXCEPT !["async"] = @ + 1]
    /\ UNCHANGED <<alive, destroyed, q, m, worker, nspawned, pc, arg, via, wpc, we,
                   memq, max_size, appended, delivered, stored, aborted>>
    /\ UNCHANGED <<warg, sync>>

\* a handle nobody is calling log() through
Unused(h) == \A p \in Producers : via[p] # h

\* h = nullptr, or h = <another object>: the old object's count is
\* decremented and tested in one atomic operation
Release(p, h) ==
    /\ ~aborted
    /\ pc[p] = "idle"
    /\ handle[h] = "async"
    /\ Unused(h)
    /\ handle' = [handle EXCEPT ![h] = "null"]
    /\ rc' = [rc EXCEPT !["async"] = @ - 1]
    /\ pc' = [pc EXCEPT ![p] = IF ShouldDelete(rc["async"] - 1) THEN "delete" ELSE "idle"]
    /\ UNCHANGED <<alive, destroyed, q, m, worker, nspawned, arg, via, wpc, we,
                   memq, max_size, appended, delivered, stored, aborted>>
    /\ UNCHANGED <<warg, sync>>

\* delete p
Delete(p) ==
    /\ ~aborted
    /\ pc[p] = "delete"
    /\ Destroy("async")
    /\ pc' = [pc EXCEPT ![p] = "idle"]
    /\ UNCHANGED <<handle, m, worker, nspawned, arg, via, wpc, we,
                   max_size, appended, delivered, stored>>
    /\ UNCHANGED <<warg, sync>>

\* ---- the worker lambda ---------------------------------------------------
\* m.lock();
WStart(w) ==
    /\ ~aborted
    /\ wpc[w] = "start"
    /\ m = Unlocked
    /\ m' = <<"w", w>>
    /\ wpc' = [wpc EXCEPT ![w] = "loop"]
    /\ UNCHANGED <<handle, rc, alive, destroyed, q, worker, nspawned, pc, arg, via, we,
                   memq, max_size, appended, delivered, stored, aborted>>
    /\ UNCHANGED <<warg, sync>>

\* the loop without its m.unlock(): L->log(e) is called with m held
WLoopHoldLock(w) ==
    /\ ~aborted
    /\ wpc[w] = "loop"
    /\ wpc' = [wpc EXCEPT ![w] = IF LoopCond(q) THEN "call" ELSE "detach"]
    /\ UNCHANGED <<handle, rc, alive, destroyed, q, m, worker, nspawned, pc, arg, via, we,
                   memq, max_size, appended, delivered, stored, aborted>>
    /\ UNCHANGED <<warg, sync>>

\* while (q.size() > 0) { Entry& e = q.front(); m.unlock();
WLoop(w) ==
    /\ ~aborted
    /\ wpc[w] = "loop"
    /\ IF LoopCond(q)
       THEN /\ m' = Unlocked
            /\ wpc' = [wpc EXCEPT ![w] = "call"]
       ELSE /\ m' = m
            /\ wpc' = [wpc EXCEPT ![w] = "detach"]
    /\ UNCHANGED <<handle, rc, alive, destroyed, q, worker, nspawned, pc, arg, via, we,
                   memq, max_size, appended, delivered, stored, aborted>>
    /\ UNCHANGED <<warg, sync>>

\* L->log(e) is entered: e is the front of the queue
WCall(w) ==
    /\ ~aborted
    /\ wpc[w] = "call"
    /\ we' = [we EXCEPT ![w] = Front(q)]
    /\ delivered' = Append(delivered, Front(q))
    /\ wpc' = [wpc EXCEPT ![w] = "inlog"]
    /\ UNCHANGED <<handle, rc, alive, destroyed, q, m, worker, nspawned, pc, arg, via,
                   memq, max_size, appended, stored, aborted>>
    /\ UNCHANGED <<warg, sync>>

\* MemLogger::log runs under its lock_guard and returns
WReturn(w) ==
    /\ ~aborted
    /\ wpc[w] = "inlog"
    /\ memq' = MemLog(memq, we[w], max_size)
    /\ stored' = Append(stored, we[w])
    /\ wpc' = [wpc EXCEPT ![w] = "relock"]
    /\ UNCHANGED <<handle, rc, alive, destroyed, q, m, worker, nspawned, pc, arg, via, we,
                   max_size, appended, delivered, aborted>>
    /\ UNCHANGED <<warg, sync>>

\* m.lock(); q.pop_front(); }
WRelock(w) ==
    /\ ~aborted
    /\ wpc[w] = "relock"
    /\ m = Unlocked
    /\ m' = <<"w", w>>
    /\ q' = PopFront(q)
    /\ we' = [we EXCEPT ![w] = NoRec]
    /\ wpc' = [wpc EXCEPT ![w] = "loop"]
    /\ UNCHANGED <<handle, rc, alive, destroyed, worker, nspawned, pc, arg, via,
                   memq, max_size, appended, delivered, stored, aborted>>
    /\ UNCHANGED <<warg, sync>>

\* the lambda without its worker.detach()
WDetachMissing(w) ==
    /\ ~aborted
    /\ wpc[w] = "detach"
    /\ wpc' = [wpc EXCEPT ![w] = "unlock"]
    /\ UNCHANGED <<handle, rc, alive, destroyed, q, m, worker, nspawned, pc, arg, via, we,
                   memq, max_size, appended, delivered, stored, aborted>>
    /\ UNCHANGED <<warg, sync>>

\* worker.detach(): throws std::system_error out of the thread function, hence
\* std::terminate, when the handle is not joinable
WDetach(w) ==
    /\ ~aborted
    /\ wpc[w] = "detach"
    /\ IF worker.joinable
       THEN /\ worker' = [joinable |-> FALSE, id |-> NoThread]
            /\ aborted' = aborted
       ELSE /\ worker' = worker
            /\ aborted' = TRUE
    /\ wpc' = [wpc EXCEPT ![w] = "unlock"]
    /\ UNCHANGED <<handle, rc, alive, destroyed, q, m, nspawned, pc, arg, via, we,
                   memq, max_size, appended, delivered, stored>>
    /\ UNCHANGED <<warg, sync>>

\* m.unlock();
WUnlock(w) ==
    /\ ~aborted
    /\ wpc[w] = "unlock"
    /\ m' = Unlocked
    /\ wpc' = [wpc EXCEPT ![w] = "exit"]
    /\ UNCHANGED <<handle, rc, alive, destroyed, q, worker, nspawned, pc, arg, via, we,
                   memq, max_size, appended, delivered, stored, aborted>>
    /\ UNCHANGED <<warg, sync>>

\* the thread function has returned: the closure, and with it the captured
\* Ref me, is destroyed
WExit(w) ==
    /\ ~aborted
    /\ wpc[w] = "exit"
    /\ rc' = [rc EXCEPT !["async"] = @ - 1]
    /\ wpc' = [wpc EXCEPT ![w] = IF ShouldDelete(rc["async"] - 1) THEN "delete" ELSE "done"]
    /\ UNCHANGED <<handle, alive, destroyed, q, m, worker, nspawned, pc, arg, via, we,
                   memq, max_size, appended, delivered, stored, aborted>>
    /\ UNCHANGED <<warg, sync>>

\* delete p, on the worker thread
WDelete(w) ==
    /\ ~aborted
    /\ wpc[w] = "delete"
    /\ Destroy("async")
    /\ wpc' = [wpc EXCEPT ![w] = "done"]
    /\ UNCHANGED <<handle, m, worker, nspawned, pc, arg, via, we,
                   max_size, appended, delivered, stored>>
    /\ UNCHANGED <<warg, sync>>

Producer(p) ==
    \/ \E h \in Handles, r \in Records : Call(p, h, r)
    \/ AcceptLock(p)
    \/ AcceptSpawn(p)
    \/ AcceptUnlock(p)
    \/ \E src \in Handles, dst \in Handles : CopyRef(p, src, dst)
    \/ \E h \in Handles : Release(p, h)
    \/ Delete(p)

Worker(w) ==
    \/ WStart(w)
    \/ WLoop(w)
    \/ WCall(w)
    \/ WReturn(w)
    \/ WRelock(w)
    \/ WDetach(w)
    \/ WUnlock(w)
    \/ WExit(w)
    \/ WDelete(w)

Next ==
    \/ \E p \in Producers : Producer(p)
    \/ \E w \in Workers : Worker(w)

Spec == Init /\ [][Next]_vars

\* ---- fairness ------------------------------------------------------------
\* Every thread that can take a step eventually takes it, except that nothing
\* forces a thread to start a log() call or to copy or release a handle.
Progress ==
    /\ \A p \in Producers :
          /\ WF_vars(AcceptLock(p))
          /\ WF_vars(AcceptSpawn(p))
          /\ WF_vars(AcceptUnlock(p))
          /\ WF_vars(Delete(p))
    /\ \A w \in Workers :
          /\ WF_vars(WStart(w))
          /\ WF_vars(WLoop(w))
          /\ WF_vars(WCall(w))
          /\ WF_vars(WRelock(w))
          /\ WF_vars(WDetach(w))
          /\ WF_vars(WUnlock(w))
          /\ WF_vars(WExit(w))
          /\ WF_vars(WDelete(w))

\* L->log always returns
FairSpec == Spec /\ Progress /\ \A w \in Workers : WF_vars(WReturn(w))

\* L->log may never return
StuckSpec == Spec /\ Progress

\* ---- a downstream sink that logs -------------------------------------------
\* L is a user-defined Logger whose log() may itself call log() on the
\* AsyncLogger that is delivering to it, on the worker's thread, before it
\* stores the record.

\* inside L->log: the nested log(e2) is entered
WReCall(w) ==
    /\ ~aborted
    /\ wpc[w] = "inlog"
    /\ Calls < MaxAppend
    /\ warg' = [warg EXCEPT ![w] = RecNames[Calls + 1]]
    /\ wpc' = [wpc EXCEPT ![w] = "relog"]
    /\ UNCHANGED <<handle, rc, alive, destroyed, q, m, worker, nspawned, pc, arg, via, we,
                   memq, max_size, appended, delivered, stored, aborted, sync>>

\* std::lock_guard<std::mutex> lock(m); q.push_back(e);
WReLock(w) ==
    /\ ~aborted
    /\ wpc[w] = "relog"
    /\ m = Unlocked
    /\ m' = <<"w", w>>
    /\ q' = PushBack(q, warg[w])
    /\ appended' = Append(appended, warg[w])
    /\ wpc' = [wpc EXCEPT ![w] = "relocked"]
    /\ UNCHANGED <<handle, rc, alive, destroyed, worker, nspawned, pc, arg, via, we,
                   memq, max_size, delivered, stored, aborted, warg, sync>>

\* if (q.size() == 1) { if (worker.joinable()) worker.join(); ... }
\* worker.join() on the calling thread itself throws std::system_error, which
\* leaves the thread function: std::terminate
WReSpawn(w) ==
    /\ ~aborted
    /\ wpc[w] = "relocked"
    /\ IF NeedSpawn(q)
       THEN IF worker.joinable /\ worker.id = w
            THEN /\ aborted' = TRUE
                 /\ UNCHANGED <<nspawned, rc, worker>>
                 /\ wpc' = [wpc EXCEPT ![w] = "reunlock"]
            ELSE /\ JoinReturns
                 /\ nspawned < MaxAppend
                 /\ nspawned' = nspawned + 1
                 /\ rc' = [rc EXCEPT !["async"] = @ + 1]
                 /\ worker' = [joinable |-> TRUE, id |-> nspawned + 1]
                 /\ wpc' = [wpc EXCEPT ![w] = "reunlock", ![nspawned + 1] = "start"]
                 /\ aborted' = aborted
       ELSE /\ wpc' = [wpc EXCEPT ![w] = "reunlock"]
            /\ UNCHANGED <<nspawned, rc, worker, aborted>>
    /\ UNCHANGED <<handle, alive, destroyed, q, m, pc, arg, via, we,
                   memq, max_size, appended, delivered, stored, warg, sync>>

\* ~lock_guard; the nested log() returns into L->log
WReUnlock(w) ==
    /\ ~aborted
    /\ wpc[w] = "reunlock"
    /\ m' = Unlocked
    /\ wpc' = [wpc EXCEPT ![w] = "inlog"]
    /\ UNCHANGED <<handle, rc, alive, destroyed, q, worker, nspawned, pc, arg, via, we,
                   memq, max_size, appended, delivered, stored, aborted, warg, sync>>

ReLog(w) ==
    \/ WReCall(w)
    \/ WReLock(w)
    \/ WReSpawn(w)
    \/ WReUnlock(w)

ReNext ==
    \/ Next
    \/ \E w \in Workers : ReLog(w)

ReSpec == Init /\ [][ReNext]_vars

\* every thread that can take a step takes it; L->log returns
ReFairSpec ==
    /\ ReSpec
    /\ Progress
    /\ \A w \in Workers :
          /\ WF_vars(WReturn(w))
          /\ WF_vars(WReLock(w))
          /\ WF_vars(WReSpawn(w))
          /\ WF_vars(WReUnlock(w))

\* ---- the synchronous graph -----------------------------------------------
\* root() = severityFilter(M, low, high), M a MultiLogger whose Ls holds
\* NumSinks sinks: MemLogger(max_size), or a user-defined Logger whose log()
\* throws.  One thread emits MaxEmit records through it.
NumSinks == 3
MaxEmit == 2

Sinks == 1..NumSinks
Severities == {-201, -200, -150, -100, -99, -50, -1, 0, 1, 50, 99, 100, 150,
               200, 250, 300, 999, 1000, 1001, 1050, 1100}
Lows == {-100, 0, 100}
Highs == {-1, -50, 200}

\* C++ integer division truncates toward zero
TruncDiv(a, b) == IF a >= 0 THEN a \div b ELSE -((-a) \div b)

\* a display name; the number is 0 unless the name is formatted from it
Named(text) == <<text, 0>>

\* stringf("severity=%i", severity)
Stringf(n) == <<"severity=%i", n>>

\* std::map<int, std::string>& severities()
severities == [n \in {0, 100, 200, 1000} |->
                  CASE n = 0 -> Named("info")
                    [] n = 100 -> Named("warning")
                    [] n = 200 -> Named("error")
                    [] n = 1000 -> Named("fatal error")]

\* std::string sevname(int severity)
sevname(severity) ==
    IF severity \in DOMAIN severities
    THEN severities[severity]
    ELSE LET band == TruncDiv(severity, 100) * 100 IN
         IF band \in DOMAIN severities THEN severities[band] ELSE Stringf(severity)

\* e.severity > low taken for e.severity >= low
severityFilterStrict(severity, low, high) ==
    severity > low /\ (high = -1 \/ severity <= high)

\* the predicate of severityFilter(L, low, high)
severityFilter(severity, low, high) ==
    severity >= low /\ (high = -1 \/ severity <= high)

\* the range-for of MultiLogger::log stopping one element early
LoopEndsEarly(i) == i >= NumSinks

\* the range-for of MultiLogger::log has visited every element of Ls
LoopEnds(i) == i > NumSinks

SyncInit ==
    /\ AsyncInit
    /\ \E lo \in Lows, hi \in Highs, fl \in SUBSET Sinks :
          sync = [pc |-> "idle", low |-> lo, high |-> hi, fails |-> fl,
                  n |-> 0, sev |-> 0, rec |-> NoRec, nfwd |-> 0, i |-> 0,
                  got |-> [k \in Sinks |-> 0],
                  sent |-> <<>>,
                  bufs |-> [k \in Sinks |-> <<>>],
                  name |-> Named(""), namesev |-> 0]

\* LOG(severity, ...): root()->log(e) is entered
SCall(sv) ==
    /\ sync.pc \in {"idle", "returned", "raised"}
    /\ sync.n < MaxEmit
    /\ sync' = [sync EXCEPT !.pc = "filter", !.n = @ + 1, !.sev = sv,
                            !.rec = RecNames[sync.n + 1], !.nfwd = 0, !.i = 0,
                            !.got = [k \in Sinks |-> 0],
                            !.name = Named(""), !.namesev = 0]
    /\ UNCHANGED asyncVars

\* FilteringLogger::log: if (f(e)) L->log(e);
SFilter ==
    /\ sync.pc = "filter"
    /\ IF severityFilter(sync.sev, sync.low, sync.high)
       THEN sync' = [sync EXCEPT !.pc = "multi", !.nfwd = @ + 1, !.i = 1,
                                 !.sent = Append(@, sync.rec)]
       ELSE sync' = [sync EXCEPT !.pc = "returned"]
    /\ UNCHANGED asyncVars

\* MultiLogger::log: for (auto& x : Ls) x->log(e);  an exception thrown by
\* x->log leaves the loop, MultiLogger::log and FilteringLogger::log: nothing
\* on the way catches it
SMulti ==
    /\ sync.pc = "multi"
    /\ IF LoopEnds(sync.i)
       THEN sync' = [sync EXCEPT !.pc = "returned"]
       ELSE IF sync.i \in sync.fails
            THEN sync' = [sync EXCEPT !.pc = "raised", !.got[sync.i] = @ + 1]
            ELSE sync' = [sync EXCEPT !.i = @ + 1, !.got[sync.i] = @ + 1,
                                      !.bufs[sync.i] = MemLog(@, sync.rec, max_size)]
    /\ UNCHANGED asyncVars

\* sevname(severity), as default_formatter calls it
SName(sv) ==
    /\ sync.pc = "idle"
    /\ sync' = [sync EXCEPT !.name = sevname(sv), !.namesev = sv]
    /\ UNCHANGED asyncVars

SyncNext ==
    \/ \E sv \in Severities : SCall(sv)
    \/ SFilter
    \/ SMulti
    \/ \E sv \in Severities : SName(sv)

SyncSpec == SyncInit /\ [][SyncNext]_vars

\* ---- auxiliary definitions of the properties -------------------------------
IsPrefix(s, t) == Len(s) <= Len(t) /\ SubSeq(t, 1, Len(s)) = s

Min(a, b) == IF a < b THEN a ELSE b

LastN(s, n) == SubSeq(s, Len(s) - n + 1, Len(s))

Popped == Len(appended) - Len(q)

ExtCount == Cardinality({h \in Handles : handle[h] = "async"})

\* workers whose closure still holds the captured Ref me
Holding == {w \in Workers : wpc[w] \in {"start", "loop", "call", "inlog", "relock",
                                        "detach", "unlock", "exit"}}

\* workers inside the drain loop
Draining == {w \in Workers : wpc[w] \in {"start", "loop", "call", "inlog", "relock"}}

InLog == {w \in Workers : wpc[w] = "inlog"}

AllIdle == \A p \in Producers : pc[p] = "idle"

\* ---- C1 --------------------------------------------------------------------
\* C1: the records handed to L->log are a prefix of the records pushed on the
\* queue, in push order; a record is popped only after it was handed over and
\* at most the head of the queue has been handed over without being popped.
C1_Fifo ==
    /\ IsPrefix(delivered, appended)
    /\ q = SubSeq(appended, Popped + 1, Len(appended))
    /\ Popped <= Len(delivered)
    /\ Len(delivered) <= Popped + 1

\* three distinct records delivered in order over at least two worker cycles
C1_Witness ==
    /\ nspawned >= 2
    /\ delivered = <<"A", "B", "C">>
    /\ appended = delivered
    /\ q = <<>>

\* ---- C2 --------------------------------------------------------------------
\* C2: at most one worker is inside L->log at any time.
C2_OneDelivery == Cardinality(InLog) <= 1

\* a new worker delivers while the previous one has left its loop and has not
\* yet terminated
C2_Witness ==
    \E w1 \in Workers, w2 \in Workers :
        /\ w1 # w2
        /\ wpc[w1] \in {"exit", "delete"}
        /\ wpc[w2] = "inlog"

\* ---- C3 --------------------------------------------------------------------
\* C3: with fair threads and a downstream log that returns, the n-th record
\* pushed is eventually handed to L->log and popped, for every n.
C3_Delivered ==
    \A n \in 1..MaxAppend :
        (Len(appended) >= n) ~> (Len(delivered) >= n /\ Popped >= n)

C3_Witness ==
    /\ Len(appended) >= 2
    /\ delivered = appended
    /\ q = <<>>
    /\ Draining = {}

\* ---- C4 --------------------------------------------------------------------
C4_Safe ==
    /\ \A o \in Objs : destroyed[o] <= 1
    /\ (q # <<>> \/ Holding # {}) => (alive["async"] /\ alive["mem"])
    /\ ~alive["async"] => (delivered = appended /\ stored = appended)

\* C4: while the queue is non-empty or a worker still holds its Ref, neither
\* the AsyncLogger nor its MemLogger is destroyed, whatever the external
\* handles do; once no external handle is left the AsyncLogger is eventually
\* destroyed, once, with every record delivered.
C4_Lifetime == []C4_Safe /\ ((ExtCount = 0) ~> (destroyed["async"] = 1))

\* every external handle was released while records are still queued
C4_Witness ==
    /\ ExtCount = 0
    /\ AllIdle
    /\ Len(q) >= 2
    /\ alive["async"]

\* ---- C5 --------------------------------------------------------------------
C5_Safe ==
    InLog # {} =>
        /\ \A w \in InLog : m # <<"w", w>>
        /\ \A p \in Producers :
              /\ pc[p] = "lock" => (ENABLED AcceptLock(p) \/ \E p2 \in Producers : m = <<"p", p2>>)
              /\ pc[p] = "locked" => ENABLED AcceptSpawn(p)
              /\ pc[p] = "unlock" => ENABLED AcceptUnlock(p)

\* C5: while a worker is inside L->log it does not hold m and no log() call
\* is blocked on anything but another log() call; every log() call returns
\* even when L->log never does.
C5_NoBackPressure ==
    []C5_Safe /\ \A p \in Producers : (pc[p] = "lock") ~> (pc[p] = "idle")

\* three calls have returned while the first delivery is still in progress
C5_Witness ==
    /\ InLog # {}
    /\ AllIdle
    /\ Len(q) = 3
    /\ Len(delivered) = 1

\* ---- C6 --------------------------------------------------------------------
\* C6: when a log() call has made the queue size 1, the worker handle is not
\* joinable and every worker spawned before has left its loop and unlocked m;
\* no log() call waits in join for a thread that has not ended.
C6_ReclaimNeverBlocks ==
    \A p \in Producers :
        pc[p] = "locked" =>
            /\ Len(q) = 1 =>
                  /\ ~worker.joinable
                  /\ \A w \in 1..nspawned : wpc[w] \in {"exit", "delete", "done"}
            /\ NeedSpawn(q) => JoinReturns

\* the queue went from empty to size 1 while the previous worker has left its
\* loop and has not yet ended
C6_Witness ==
    \E p \in Producers, w \in Workers :
        /\ pc[p] = "locked"
        /\ Len(q) = 1
        /\ wpc[w] = "exit"

\* ---- C7 --------------------------------------------------------------------
C7_Safe ==
    (AllIdle /\ ExtCount >= 1 /\ rc["async"] <= 1) =>
        /\ q = <<>>
        /\ delivered = appended
        /\ stored = appended

\* C7: when no log() call is in progress and the reference count read through
\* a handle is at most 1, the queue is empty and every record pushed has been
\* delivered; and the count eventually stays equal to the number of external
\* handles, so the poll of a sole holder ends.
C7_Poll == []C7_Safe /\ <>[](rc["async"] = ExtCount)

C7_Witness ==
    /\ AllIdle
    /\ ExtCount = 1
    /\ rc["async"] = 1
    /\ Len(appended) >= 2
    /\ stored = appended

\* ---- C8 --------------------------------------------------------------------
\* C8: the MemLogger holds the last min(n, max_size) of the n records logged
\* into it, in order, and all of them when max_size is -1.
C8_MemBuffer ==
    alive["mem"] =>
        /\ memq = LastN(stored, IF max_size = -1 THEN Len(stored)
                                ELSE Min(Len(stored), max_size))
        /\ max_size # -1 => Len(memq) <= max_size

C8_Witness ==
    /\ max_size = 2
    /\ stored = <<"A", "B", "C">>
    /\ memq = <<"B", "C">>
    /\ Len(memq) < Len(stored)

\* ---- C9 --------------------------------------------------------------------
C9_Drained ==
    /\ max_size = 2
    /\ appended = <<"A", "B", "C">>
    /\ q = <<>>
    /\ alive["mem"]

\* C9: with max_size 2 and A, B, C logged, once the queue is empty the
\* MemLogger holds <<B, C>>, and it keeps it as long as nothing more is logged.
C9_EndToEnd ==
    /\ [](C9_Drained => memq = <<"B", "C">>)
    /\ [][(C9_Drained /\ appended' = appended /\ alive'["mem"]) => memq' = memq]_vars

\* the three calls have returned and the MemLogger is still empty
C9_Witness ==
    /\ max_size = 2
    /\ appended = <<"A", "B", "C">>
    /\ AllIdle
    /\ memq = <<>>
    /\ stored = <<>>
    /\ alive["mem"]

\* ---- C10 -------------------------------------------------------------------
Deleting == {<<"p", p>> : p \in {x \in Producers : pc[x] = "delete"}}
            \cup {<<"w", w>> : w \in {x \in Workers : wpc[x] = "delete"}}

\* C10: the count of the AsyncLogger equals the number of external handles
\* and worker closures pointing at it, the count of the MemLogger the number
\* of AsyncLoggers holding it; an object is deleted at most once, by the one
\* thread whose decrement reached zero, and never while its count is positive.
C10_Refcount ==
    /\ rc["async"] = ExtCount + Cardinality(Holding)
    /\ rc["mem"] = IF alive["async"] THEN 1 ELSE 0
    /\ \A o \in Objs :
          /\ destroyed[o] <= 1
          /\ alive[o] <=> destroyed[o] = 0
          /\ rc[o] > 0 => alive[o]
    /\ Cardinality(Deleting) <= 1
    /\ rc["async"] = 0 <=> (~alive["async"] \/ Deleting # {})

\* the external handles were released while a worker held its own, and the
\* worker thread is the one that deletes
C10_Witness ==
    /\ \E w \in Workers : wpc[w] = "delete"
    /\ ExtCount = 0
    /\ alive["async"]

\* ---- C11 -------------------------------------------------------------------
\* the record has gone through FilteringLogger::log
PastFilter == sync.pc \in {"multi", "returned", "raised"}

\* C11: the FilteringLogger has called L->log once when severity >= low and
\* (high = -1 or severity <= high), and not at all otherwise; with low = 100
\* and high = -1 severities 100 and 1000 are forwarded and 0 is dropped.
C11_Filter ==
    PastFilter =>
        /\ sync.nfwd = IF sync.sev >= sync.low /\ (sync.high = -1 \/ sync.sev <= sync.high)
                       THEN 1 ELSE 0
        /\ (sync.low = 100 /\ sync.high = -1) =>
              /\ sync.sev \in {100, 1000} => sync.nfwd = 1
              /\ sync.sev = 0 => sync.nfwd = 0

\* a record above the bands is forwarded by the filter that is unbounded above,
\* and a later record of severity 0 is dropped
C11_Witness ==
    /\ sync.pc = "returned"
    /\ sync.low = 100
    /\ sync.high = -1
    /\ sync.sev = 0
    /\ sync.n = 2
    /\ sync.nfwd = 0
    /\ Len(sync.sent) = 1

\* ---- C12 -------------------------------------------------------------------
\* C12: inside MultiLogger::log the sinks before the loop position have been
\* called once and the others not yet; when the call has returned every sink
\* has been called once and every MemLogger holds the forwarded records.
C12_FanOut ==
    /\ sync.pc = "multi" =>
          \A k \in Sinks : sync.got[k] = IF k < sync.i THEN 1 ELSE 0
    /\ (sync.pc = "returned" /\ sync.nfwd = 1) =>
          \A k \in Sinks :
              /\ sync.got[k] = 1
              /\ sync.bufs[k] = LastN(sync.sent, IF max_size = -1 THEN Len(sync.sent)
                                                 ELSE Min(Len(sync.sent), max_size))

\* one log() on a MultiLogger of MemLoggers: the record is in all of them
C12_Witness ==
    /\ sync.pc = "returned"
    /\ sync.n = 1
    /\ max_size = -1
    /\ \A k \in Sinks : sync.bufs[k] = <<"A">>

\* ---- C13 -------------------------------------------------------------------
\* C13: when MultiLogger::log is over, every sink of Ls has been called with
\* the record, also the sinks that come after one that failed.
C13_BestEffort ==
    (sync.pc \in {"returned", "raised"} /\ sync.nfwd = 1) =>
        \A k \in Sinks : sync.got[k] = 1

\* ---- C14 -------------------------------------------------------------------
\* C14: the failure of a sink never reaches the caller of the emission.
C14_NoPropagation == sync.pc # "raised"

\* ---- C15 -------------------------------------------------------------------
\* n rounded down to a multiple of 100
Floor100(n) == (n \div 100) * 100

\* C15: the name of severity n is the table entry of n rounded down to a
\* multiple of 100, and "severity=<n>" when the table has no such entry.
C15_SevNameFloor ==
    sync.name # Named("") =>
        sync.name = IF Floor100(sync.namesev) \in DOMAIN severities
                    THEN severities[Floor100(sync.namesev)]
                    ELSE Stringf(sync.namesev)

\* ---- C16 -------------------------------------------------------------------
\* workers spawned and not yet past worker.detach()
NotReclaimable == {w \in Workers : wpc[w] \in {"start", "loop", "call", "inlog",
                                               "relock", "detach"}}

C16_Inv ==
    /\ Cardinality(NotReclaimable) <= 1
    /\ m = Unlocked => (q # <<>> <=> Cardinality(NotReclaimable) = 1)

C16_Step ==
    /\ nspawned' > nspawned =>
          /\ Len(q) = 1
          /\ NotReclaimable = {}
          /\ \E p \in Producers : m = <<"p", p>>
    /\ \A w \in Workers :
          (wpc[w] = "loop" /\ wpc'[w] = "detach") => (q = <<>> /\ m = <<"w", w>>)

\* C16: while m is not held the queue is non-empty exactly when one worker is
\* in its drain loop; a worker is spawned only by the log() call that took the
\* queue from empty to size 1 and leaves its loop only on seeing the queue
\* empty with m held.
C16_IdleDraining == []C16_Inv /\ [][C16_Step]_vars

\* a second worker waits for m with two records queued
C16_Witness ==
    /\ m = Unlocked
    /\ Len(q) >= 2
    /\ nspawned >= 2
    /\ \E w \in Workers : wpc[w] = "relock"

\* ---- C17 -------------------------------------------------------------------
C17_Inv ==
    /\ ~aborted
    /\ worker.joinable => worker.id \in NotReclaimable
    /\ \A w \in Workers :
          /\ w \in NotReclaimable => worker = [joinable |-> TRUE, id |-> w]
          /\ wpc[w] \in {"unlock", "exit", "delete", "done"} => worker.id # w

C17_Step ==
    /\ (worker' # worker /\ worker'.joinable) => ~worker.joinable
    /\ (worker.joinable /\ ~worker'.joinable) =>
          /\ wpc[worker.id] = "detach"
          /\ wpc'[worker.id] = "unlock"

\* C17: a worker that has not yet detached finds the handle joinable and
\* referring to itself, from its first step on; the handle is assigned only
\* when it is not joinable and detached only by the worker it refers to, and
\* std::terminate is never reached.
C17_HandleProtocol == []C17_Inv /\ [][C17_Step]_vars

\* the second worker is about to detach the handle that refers to it
C17_Witness ==
    \E w \in Workers :
        /\ w >= 2
        /\ wpc[w] = "detach"
        /\ worker = [joinable |-> TRUE, id |-> w]

\* ---- C18 -------------------------------------------------------------------
Quiescent ==
    /\ q = <<>>
    /\ m = Unlocked
    /\ NotReclaimable = {}
    /\ ~worker.joinable

\* C18: delete of the AsyncLogger runs, on whichever thread, only in a state
\* where its queue is empty, m is free, no worker is in its loop and the
\* handle is not joinable; nothing touches the object afterwards.
C18_DestroyedQuiescent ==
    /\ [][destroyed'["async"] > destroyed["async"] => Quiescent]_vars
    /\ [](~alive["async"] => (Quiescent /\ ~aborted))

\* the AsyncLogger was deleted after two worker cycles
C18_Witness ==
    /\ destroyed["async"] = 1
    /\ nspawned >= 2
    /\ stored = appended

\* ---- C19 -------------------------------------------------------------------
\* workers inside a nested log() call
Nested == {w \in Workers : wpc[w] \in {"relog", "relocked", "reunlock"}}

\* workers that have not yet left the drain loop, nested calls included
InLoop == NotReclaimable \cup Nested

C19_Safe ==
    /\ ~aborted
    /\ Cardinality(InLoop) <= 1
    /\ IsPrefix(delivered, appended)
    /\ \A w \in Workers :
          /\ wpc[w] \in {"relocked", "reunlock"} =>
                /\ Len(q) >= 2
                /\ Front(q) = we[w]
                /\ q[Len(q)] = warg[w]
                /\ ~NeedSpawn(q)
          /\ \A w2 \in Workers :
                (warg[w] # NoRec /\ we[w2] = warg[w]) => w2 = w

C19_Step ==
    \A w \in Nested : wpc'[w] # wpc[w] => (nspawned' = nspawned /\ worker' = worker)

\* C19: a log() call made from inside L->log on the worker's thread finds the
\* record under delivery still at the head, appends at the tail, spawns no
\* worker and returns; every record, the appended one included, is eventually
\* delivered in queue order, the appended one by the worker that appended it.
C19_Reentrant ==
    /\ []C19_Safe
    /\ [][C19_Step]_vars
    /\ (Nested # {}) ~> (Nested = {})
    /\ <>[](delivered = appended /\ q = <<>>)

\* a worker is delivering the record it appended itself from inside L->log
C19_Witness ==
    \E w \in Workers :
        /\ wpc[w] = "inlog"
        /\ warg[w] # NoRec
        /\ we[w] = warg[w]
        /\ Len(delivered) >= 2

TypeOK ==
    /\ handle \in [Handles -> {"null", "async"}]
    /\ rc \in [Objs -> Int]
    /\ alive \in [Objs -> BOOLEAN]
    /\ pc \in [Producers -> {"idle", "lock", "locked", "unlock", "delete"}]
    /\ wpc \in [Workers -> {"none", "start", "loop", "call", "inlog", "relock",
                            "detach", "unlock", "exit", "delete", "done",
                            "relog", "relocked", "reunlock"}]
    /\ nspawned \in 0..MaxAppend
    /\ Len(appended) <= MaxAppend
====
